---- MODULE Spec2Model ----
(***************************************************************************)
(* In-place heap manager of global_shared_allocator (shared_allocator.cpp). *)
(*                                                                         *)
(* Addresses inside the segment are byte offsets from its start; the       *)
(* driver itself sits at offset 0, so offset 0 doubles as NULL.  A process  *)
(* makes allocate and deallocate calls only while its driver_ is the        *)
(* address the master recorded and the segment is mapped there (Usable), so *)
(* one offset names the same byte in every calling process.  Where each     *)
(* process maps the segment, and what shm_open and shm_close leave in its   *)
(* statics, is modelled by addr_, hnd and vma.                              *)
(*                                                                         *)
(* TLC's integers are 32 bits wide, so the width of size_t is scaled from   *)
(* 64 to SizeBits bits and max_size_ from 2^32 to 2^(SizeBits-2); all other *)
(* constants keep the values they have on LP64 Linux.                       *)
(***************************************************************************)
EXTENDS Integers, Sequences, FiniteSets, TLC

VARIABLES
  sem_,      \* driver::sem_, the value of the process-shared semaphore
  size_,     \* driver::size_, the committed (truncated) size
  file,      \* st_size of the in-memory file behind shmfd_
  mem,       \* the segment's chunk_header/chunk_footer slots: address -> slot
  pc,        \* per process: position inside allocate()/deallocate()
  loc,       \* per process: arguments and locals of the call in progress
  live,      \* payload address -> byte count asked for, of the chunks handed out
  freed,     \* since the last allocate that handed out a chunk: the payload
             \* addresses given back (ptrs) and the headers and footers that
             \* merges left behind inside the payload of free chunks (slots)
  addr_,     \* driver::addr_, the mapping address the master recorded
  hnd,       \* per process: name_, shmfd_, oflag_, driver_ of global_shared_allocator,
             \* and isOpen (history): its last shm_open returned and it has not
             \* closed since
  vma        \* per process: the mappings of the segment in its address space

vars == <<sem_, size_, file, mem, pc, loc, live, freed, addr_, hnd, vma>>

----------------------------------------------------------------------------
(* Bounds of the model. *)

\* the attached processes
Procs == {1, 2}

\* byte counts passed to allocate(): zero; 1000 and 2040 split a chunk, or
\* take a freed chunk of their own size whole; 2040 needs one doubling of the
\* segment and 5000 two; 16384 is max_size_; the last three are one per range
\* next to the maximum of size_t where rounding or adding the overhead wraps
ReqSizes == {0, 1000, 2040, 5000, 16384, 65504, 65520, 65535}

\* the byte counts of the two-process specification
ConcSizes == {0, 1000, 16384, 65520}

\* the byte counts of the specification with failing calls: one that splits
\* and extends, max_size_, and one that rounds to zero
FaultSizes == {1000, 16384, 65535}

\* at most this many chunks are handed out at a time
MaxLive == 2

----------------------------------------------------------------------------
(* Configuration constants and layout. *)

SizeBits == 16
SizeMod == 2 ^ SizeBits

max_size_ == 2 ^ (SizeBits - 2)
min_size_ == 4096
data_align_ == 16
min_data_size_ == data_align_
n_free_list_ == 64

sizeof_chunk_header == 16
sizeof_chunk_footer == 16
sizeof_chunk == sizeof_chunk_header + sizeof_chunk_footer

\* sem_t (32) + addr_ (8) + size_ (8) precede free_list_
offsetof_free_list_ == 48
sizeof_driver == offsetof_free_list_ + n_free_list_ * sizeof_chunk

min_chunk_size_ == sizeof_chunk + min_data_size_

NULL == 0

\* &driver_[1]
first_chunk == sizeof_driver

\* &driver_->free_list_[i]
free_list_(i) == offsetof_free_list_ + i * sizeof_chunk

\* size_t arithmetic
SizeT(x) == x % SizeMod

AlignDown(x) == x - (x % data_align_)

----------------------------------------------------------------------------
(* Memory: a slot is a chunk_header {size_, prev_} or a chunk_footer        *)
(* {size_, next_}; link_ is prev_ in a header and next_ in a footer.        *)
(* Bytes never written read as zero (memset / fresh pages of ftruncate).    *)

ZeroSlot == [size_ |-> 0, link_ |-> NULL]

Rd(m, a) == IF a \in DOMAIN m THEN m[a] ELSE ZeroSlot

\* mem holds the nonzero slots only, so that equal memory is one value
Wr(m, a, s) ==
  IF s = ZeroSlot THEN [x \in DOMAIN m \ {a} |-> m[x]]
  ELSE [x \in DOMAIN m \cup {a} |-> IF x = a THEN s ELSE m[x]]

WrSize(m, a, v) == Wr(m, a, [Rd(m, a) EXCEPT !.size_ = v])

WrLink(m, a, v) == Wr(m, a, [Rd(m, a) EXCEPT !.link_ = v])

\* The bytes between a chunk's header and its footer are payload, not
\* allocator state: the caller owns them while the chunk is allocated, and
\* the allocator reads a slot only as the header or footer of a chunk.  The
\* headers and footers that a merge leaves inside the merged payload are
\* therefore dropped from mem instead of being carried along as stale values.
Forget(m, lo, hi) == [x \in {a \in DOMAIN m : ~(lo <= a /\ a < hi)} |-> m[x]]

----------------------------------------------------------------------------
(* Chunk primitives. *)

size(m, c) == Rd(m, c).size_

full_size(m, c) == size(m, c) + sizeof_chunk

header(c) == c

footer(m, c) == c + full_size(m, c) - sizeof_chunk_footer

allocated(m, c) == Rd(m, footer(m, c)).size_ = 0

data(c) == header(c) + sizeof_chunk_header

\* get_chunk: the exception is modelled by its caller testing GetChunkThrows
GetChunkThrows(d) == d % data_align_ # 0

get_chunk(d) == d - sizeof_chunk_header

RECURSIVE Log2(_)
Log2(s) == IF s <= 1 THEN 0 ELSE 1 + Log2(s \div 2)

\* list_index: 63 - clzll(size); the caller tests size = 0 for the throw
list_index(s) == Log2(s)

before(m, c) ==
  IF c = first_chunk THEN NULL
  ELSE LET f == c - sizeof_chunk_footer IN
       IF Rd(m, f).size_ = 0 THEN NULL
       ELSE get_chunk(f - Rd(m, f).size_)

after(m, sz, c) ==
  LET n == footer(m, c) + sizeof_chunk_footer IN
  IF n + min_chunk_size_ > sz THEN NULL
  ELSE IF allocated(m, n) THEN NULL
  ELSE n

----------------------------------------------------------------------------
(* Free-list manipulation.  An operation that can throw returns a record    *)
(* whose exc field names the exception ("" when it returns normally).       *)

NoExc == ""
LogicError == "logic_error"
BadAlloc == "bad_alloc"
SystemError == "system_error"

\* mutant: the old first element's header()->prev_ is not redirected
add_noback(m, c) ==
  LET i  == list_index(size(m, c))
      p  == free_list_(i)
      n  == Rd(m, footer(m, p)).link_
      m1 == WrLink(m, footer(m, p), c)
      m2 == WrLink(m1, header(c), p)
  IN WrLink(m2, footer(m2, c), n)

add(m, c) ==
  LET i  == list_index(size(m, c))
      p  == free_list_(i)
      n  == Rd(m, footer(m, p)).link_
      m1 == WrLink(m, footer(m, p), c)
      m2 == WrLink(m1, header(c), p)
      m3 == WrLink(m2, footer(m2, c), n)
  IN IF n # NULL THEN WrLink(m3, header(n), c) ELSE m3

remove(m, c) ==
  LET p  == Rd(m, header(c)).link_
      n  == Rd(m, footer(m, c)).link_
      m1 == WrLink(m, header(c), NULL)
      m2 == WrLink(m1, footer(m1, c), NULL)
      m3 == WrLink(m2, footer(m2, p), n)
  IN IF n # NULL THEN WrLink(m3, header(n), p) ELSE m3

\* what add_chunk leaves of memory: the payload of the chunk it wrote
Payload(m, c) == Forget(m, c + sizeof_chunk_header, footer(m, c))

RECURSIVE add_chunk(_, _, _, _)
RECURSIVE coalesce(_, _, _)

\* add_chunk and coalesce call each other.  Beside what the code returns,
\* their result counts in `calls` (history) the calls of add_chunk that
\* coalesce() made, nested ones included.
add_chunk(m, sz, addr, sizeArg) ==
  IF sizeArg % data_align_ # 0
  THEN [mem |-> m, c |-> NULL, exc |-> LogicError, calls |-> 0]
  ELSE IF sizeArg < min_chunk_size_
  THEN [mem |-> m, c |-> NULL, exc |-> LogicError, calls |-> 0]
  ELSE LET c  == addr
           m1 == WrSize(m, header(c), sizeArg - sizeof_chunk)
           m2 == WrLink(m1, header(c), NULL)
           m3 == WrSize(m2, footer(m2, c), size(m2, c))
           m4 == WrLink(m3, footer(m3, c), NULL)
       IN coalesce(Payload(m4, c), sz, c)

\* mutant: the chunk after this one is never looked at
coalesce_noafter(m, sz, c) ==
  LET b == before(m, c)
  IN IF b = NULL THEN [mem |-> add(m, c), c |-> c, exc |-> NoExc, calls |-> 0]
     ELSE LET m1 == remove(m, b)
              new_size == full_size(m1, c) + full_size(m1, b)
          IN add_chunk(m1, sz, b, new_size)

\* mutant: one neighbour is merged per call, the other by the nested call
coalesce_stepwise(m, sz, c) ==
  LET b == before(m, c)
      a == after(m, sz, c)
  IN IF a = NULL /\ b = NULL
     THEN [mem |-> add(m, c), c |-> c, exc |-> NoExc, calls |-> 0]
     ELSE IF b # NULL
     THEN LET m1 == remove(m, b)
          IN [add_chunk(m1, sz, b, full_size(m1, c) + full_size(m1, b))
                EXCEPT !.calls = @ + 1]
     ELSE LET m1 == remove(m, a)
          IN [add_chunk(m1, sz, c, full_size(m1, c) + full_size(m1, a))
                EXCEPT !.calls = @ + 1]

coalesce(m, sz, c) ==
  LET b == before(m, c)
      a == after(m, sz, c)
  IN IF a = NULL /\ b = NULL
     THEN [mem |-> add(m, c), c |-> c, exc |-> NoExc, calls |-> 0]
     ELSE LET m1 == IF b # NULL THEN remove(m, b) ELSE m
              m2 == IF a # NULL THEN remove(m1, a) ELSE m1
              new_size == full_size(m2, c)
                          + (IF b # NULL THEN full_size(m2, b) ELSE 0)
                          + (IF a # NULL THEN full_size(m2, a) ELSE 0)
          IN [add_chunk(m2, sz, IF b # NULL THEN b ELSE c, new_size)
                EXCEPT !.calls = @ + 1]

\* mutant: the remainder is created one footer short of remsize
split_short(m, sz, c, remsize) ==
  IF remsize < min_chunk_size_ THEN [mem |-> m, c |-> NULL, exc |-> LogicError]
  ELSE LET m1 == WrSize(m, header(c), size(m, c) - remsize)
           m2 == WrSize(m1, footer(m1, c), 0)
           m3 == WrLink(m2, footer(m2, c), NULL)
       IN add_chunk(m3, sz, footer(m3, c) + sizeof_chunk_footer,
                    remsize - sizeof_chunk_footer)

split(m, sz, c, remsize) ==
  IF remsize < min_chunk_size_ THEN [mem |-> m, c |-> NULL, exc |-> LogicError]
  ELSE IF remsize % data_align_ # 0 THEN [mem |-> m, c |-> NULL, exc |-> LogicError]
  ELSE LET m1 == WrSize(m, header(c), size(m, c) - remsize)
           m2 == WrSize(m1, footer(m1, c), 0)
           m3 == WrLink(m2, footer(m2, c), NULL)
       IN add_chunk(m3, sz, footer(m3, c) + sizeof_chunk_footer, remsize)

\* mutant: a chunk taken whole keeps its footer size
chunk_allocate_keep(m, sz, c, reqsize) ==
  IF reqsize % data_align_ # 0 THEN [mem |-> m, exc |-> LogicError]
  ELSE IF size(m, c) < reqsize THEN [mem |-> m, exc |-> LogicError]
  ELSE LET m1 == remove(m, c)
           remsize == size(m1, c) - reqsize
       IN IF remsize >= min_chunk_size_
          THEN LET r == split(m1, sz, c, remsize) IN [mem |-> r.mem, exc |-> r.exc]
          ELSE [mem |-> m1, exc |-> NoExc]

\* mutant: the chunk is never split
chunk_allocate_whole(m, sz, c, reqsize) ==
  IF reqsize % data_align_ # 0 THEN [mem |-> m, exc |-> LogicError]
  ELSE IF size(m, c) < reqsize THEN [mem |-> m, exc |-> LogicError]
  ELSE LET m1 == remove(m, c)
       IN [mem |-> WrSize(m1, footer(m1, c), 0), exc |-> NoExc]

\* chunk::allocate
chunk_allocate(m, sz, c, reqsize) ==
  IF reqsize % data_align_ # 0 THEN [mem |-> m, exc |-> LogicError]
  ELSE IF size(m, c) < reqsize THEN [mem |-> m, exc |-> LogicError]
  ELSE LET m1 == remove(m, c)
           remsize == size(m1, c) - reqsize
       IN IF remsize >= min_chunk_size_
          THEN LET r == split(m1, sz, c, remsize) IN [mem |-> r.mem, exc |-> r.exc]
          ELSE [mem |-> WrSize(m1, footer(m1, c), 0), exc |-> NoExc]

\* mutant: the footer is not tested
chunk_deallocate_unchecked(m, c) ==
  [mem |-> WrSize(m, footer(m, c), size(m, c)), exc |-> NoExc]

\* chunk::deallocate up to the call of coalesce()
chunk_deallocate(m, c) ==
  IF Rd(m, footer(m, c)).size_ # 0 THEN [mem |-> m, exc |-> LogicError]
  ELSE [mem |-> WrSize(m, footer(m, c), size(m, c)), exc |-> NoExc]

----------------------------------------------------------------------------
(* Segment extension. *)

RECURSIVE Grow(_, _, _)
\* while(s < max_size_ && s - size_ < size) s *= 2;
Grow(s, cur, sizeArg) ==
  IF s < max_size_ /\ SizeT(s - cur) < sizeArg THEN Grow(SizeT(s * 2), cur, sizeArg) ELSE s

\* mutant: the file is truncated and size_ set before the size test
extend_early(m, sz, f, sizeArg) ==
  LET s == Grow(sz, sz, sizeArg) IN
  IF SizeT(s - sz) < sizeArg
  THEN [mem |-> m, size_ |-> s, file |-> s, c |-> NULL, exc |-> BadAlloc]
  ELSE LET r == add_chunk(m, s, sz, SizeT(s - sz))
       IN [mem |-> r.mem, size_ |-> s, file |-> s, c |-> r.c, exc |-> r.exc]

extend(m, sz, f, sizeArg) ==
  LET s == Grow(sz, sz, sizeArg) IN
  IF SizeT(s - sz) < sizeArg
  THEN [mem |-> m, size_ |-> sz, file |-> f, c |-> NULL, exc |-> BadAlloc]
  ELSE LET r == add_chunk(m, s, sz, SizeT(s - sz))
       IN [mem |-> r.mem, size_ |-> s, file |-> s, c |-> r.c, exc |-> r.exc]

----------------------------------------------------------------------------
(* driver::allocate, first-fit search over the free lists. *)

RECURSIVE FindInList(_, _, _)
\* while(c) { if(c->size() >= size) ...; c = c->footer()->next_; }
FindInList(m, c, sizeArg) ==
  IF c = NULL THEN NULL
  ELSE IF size(m, c) >= sizeArg THEN c
  ELSE FindInList(m, Rd(m, footer(m, c)).link_, sizeArg)

RECURSIVE FindFit(_, _, _)
\* for(size_t i = ...; i < n_free_list_; ++i)
FindFit(m, i, sizeArg) ==
  IF i >= n_free_list_ THEN NULL
  ELSE LET c == FindInList(m, Rd(m, footer(m, free_list_(i))).link_, sizeArg)
       IN IF c # NULL THEN c ELSE FindFit(m, i + 1, sizeArg)

\* mutant: the byte count is rounded down to the alignment
RoundDown(n) == AlignDown(SizeT(n))

\* size = (size + data_align_ - 1) & ~(data_align_ - 1)
RoundUp(n) == AlignDown(SizeT(n + data_align_ - 1))

\* the search loop and, with no fit, extend(): the chunk to allocate from
find_or_extend(m, sz, f, sizeArg) ==
  IF sizeArg = 0
  THEN [mem |-> m, size_ |-> sz, file |-> f, c |-> NULL, exc |-> LogicError]
  ELSE LET c == FindFit(m, list_index(sizeArg), sizeArg)
       IN IF c # NULL
          THEN [mem |-> m, size_ |-> sz, file |-> f, c |-> c, exc |-> NoExc]
          ELSE extend(m, sz, f, SizeT(sizeArg + sizeof_chunk))

\* driver::allocate between sem_wait and sem_post, n > 0
allocate_op(m, sz, f, n) ==
  LET s == RoundUp(n)
      r == find_or_extend(m, sz, f, s)
  IN IF r.exc # NoExc
     THEN [mem |-> r.mem, size_ |-> r.size_, file |-> r.file, ret |-> NULL, exc |-> r.exc]
     ELSE LET a == chunk_allocate(r.mem, r.size_, r.c, s)
          IN [mem |-> a.mem, size_ |-> r.size_, file |-> r.file,
              ret |-> IF a.exc = NoExc THEN data(r.c) ELSE NULL, exc |-> a.exc]

\* driver::deallocate between sem_wait and sem_post, ptr # NULL
deallocate_op(m, sz, ptr) ==
  IF GetChunkThrows(ptr) THEN [mem |-> m, exc |-> LogicError]
  ELSE LET c == get_chunk(ptr)
           d == chunk_deallocate(m, c)
       IN IF d.exc # NoExc THEN d
          ELSE LET r == coalesce(d.mem, sz, c) IN [mem |-> r.mem, exc |-> r.exc]

----------------------------------------------------------------------------
(* driver::driver(size): the arena the master leaves behind. *)

driver(sizeArg) ==
  LET rest == sizeArg - sizeof_driver
      r == IF rest >= min_chunk_size_
           THEN add_chunk(<<>>, sizeArg, first_chunk, rest)
           ELSE [mem |-> <<>>, c |-> NULL, exc |-> NoExc]
  IN [sem_ |-> 1, size_ |-> sizeArg, mem |-> r.mem]

----------------------------------------------------------------------------
(* global_shared_allocator::shm_open / shm_close and driver::create /       *)
(* destroy.  A mapping address is one of the places where the kernel can    *)
(* put max_size_ bytes, numbered from 1; a mapping is [base, lo]: the bytes *)
(* from offset lo of the place base are mapped (lo > 0 after a munmap of    *)
(* the first lo bytes).                                                     *)

\* <fcntl.h>
O_RDWR == 2
O_CREAT == 64
O_TRUNC == 512
HasFlag(oflag, f) == (oflag \div f) % 2 = 1

\* mmap's MAP_FAILED, close()d shmfd_, the descriptor ::shm_open returns
MAP_FAILED == -1
NoFd == -1
Fd == 3

\* st_size when the name does not exist
NoFile == -1

\* the segment of the model, and a name that no segment has
SegName == "pid.shm"
OtherName == "other.shm"

\* the address of the master's mapping in the specifications that start
\* with the segment open
MasterBase == 1

\* the name argument of shm_open when it is NULL
NoName == ""

\* the segment as the kernel holds it: the file size and the arena's bytes
Shared == [file |-> file, sem_ |-> sem_, addr_ |-> addr_, size_ |-> size_, mem |-> mem]

\* a file of fsize bytes that reads as zeros
Zeroed(fsize) == [file |-> fsize, sem_ |-> 0, addr_ |-> NULL, size_ |-> 0, mem |-> <<>>]

\* ::shm_open(name_.c_str(), oflag_, mode); ok = FALSE: it fails whatever the
\* name (EMFILE, EACCES)
sys_shm_open(sh, name, oflag, ok) ==
  IF ~ok THEN [fd |-> NoFd, sh |-> sh]
  ELSE IF name # SegName \/ sh.file = NoFile
       THEN IF HasFlag(oflag, O_CREAT) /\ name = SegName
            THEN [fd |-> Fd, sh |-> Zeroed(0)]
            ELSE [fd |-> NoFd, sh |-> sh]
       ELSE IF HasFlag(oflag, O_TRUNC)
            THEN [fd |-> Fd, sh |-> Zeroed(0)]
            ELSE [fd |-> Fd, sh |-> sh]

\* munmap(b, len) in an address space with the mappings v
munmap(v, b, len) ==
  {r \in v : r.base # b}
    \cup {[base |-> b, lo |-> IF r.lo > len THEN r.lo ELSE len] :
            r \in {x \in v : x.base = b /\ len < max_size_}}

\* new(addr) driver(size): the segment sh with the driver d constructed at addr
constructed(sh, addr, d) ==
  [sh EXCEPT !.sem_ = d.sem_, !.addr_ = addr, !.size_ = d.size_, !.mem = d.mem]

\* mutant: the driver is constructed whatever the flags
create_init(h, v, sh, e) ==
  LET size0 == sh.file IN
  IF size0 > max_size_ THEN [h |-> h, v |-> v, sh |-> sh, exc |-> LogicError]
  ELSE IF size0 < min_size_ /\ ~e.trunc
  THEN [h |-> h, v |-> v, sh |-> sh, exc |-> SystemError]
  ELSE LET sh1 == IF size0 < min_size_ THEN [sh EXCEPT !.file = min_size_] ELSE sh
       IN IF e.map = MAP_FAILED
          THEN [h |-> h, v |-> v, sh |-> sh1, exc |-> SystemError]
          ELSE [h |-> [h EXCEPT !.driver_ = e.map],
                v |-> v \cup {[base |-> e.map, lo |-> 0]},
                sh |-> constructed(sh1, e.map, driver(sh1.file)),
                exc |-> NoExc]

\* driver::create; e is what the system calls answer: trunc = ftruncate
\* succeeds, map = the address of the first mmap or MAP_FAILED, remap = the
\* kernel grants the second mmap if the place is free
create(h, v, sh, e) ==
  LET size0 == sh.file IN
  IF size0 > max_size_ THEN [h |-> h, v |-> v, sh |-> sh, exc |-> LogicError]
  ELSE IF size0 < min_size_ /\ ~e.trunc
  THEN [h |-> h, v |-> v, sh |-> sh, exc |-> SystemError]
  ELSE LET sh1 == IF size0 < min_size_ THEN [sh EXCEPT !.file = min_size_] ELSE sh
           sizeL == sh1.file
       IN IF e.map = MAP_FAILED
          THEN [h |-> h, v |-> v, sh |-> sh1, exc |-> SystemError]
          ELSE LET h1 == [h EXCEPT !.driver_ = e.map]
                   v1 == v \cup {[base |-> e.map, lo |-> 0]}
               IN IF HasFlag(h.oflag_, O_TRUNC)
                  THEN [h |-> h1, v |-> v1,
                        sh |-> constructed(sh1, e.map, driver(sizeL)),
                        exc |-> NoExc]
                  ELSE LET hint == sh1.addr_ IN
                       IF hint = e.map
                       THEN [h |-> h1, v |-> v1, sh |-> sh1, exc |-> NoExc]
                       ELSE LET v2 == munmap(v1, e.map, sizeL) IN
                            IF hint # NULL /\ e.remap /\ \A r \in v2 : r.base # hint
                            THEN [h |-> h1, v |-> v2 \cup {[base |-> hint, lo |-> 0]},
                                  sh |-> sh1, exc |-> NoExc]
                            ELSE [h |-> h1, v |-> v2, sh |-> sh1, exc |-> SystemError]

\* global_shared_allocator::shm_open
shm_open(h, v, sh, name, oflag, e) ==
  IF h.driver_ # NULL THEN [h |-> h, v |-> v, sh |-> sh, exc |-> LogicError]
  ELSE LET h1 == [h EXCEPT !.name_ = IF name # NoName THEN name ELSE @,
                           !.oflag_ = oflag]
           o  == sys_shm_open(sh, h1.name_, oflag, e.open)
           h2 == [h1 EXCEPT !.shmfd_ = o.fd]
       IN IF o.fd < 0
          THEN [h |-> h2, v |-> v, sh |-> o.sh, exc |-> SystemError]
          ELSE create(h2, v, o.sh, e)

\* global_shared_allocator::shm_close with driver::destroy (~driver is empty)
shm_close(h, v) ==
  IF h.driver_ = NULL THEN [h |-> h, v |-> v, exc |-> LogicError]
  ELSE [h |-> [h EXCEPT !.driver_ = NULL, !.shmfd_ = NoFd, !.oflag_ = 0],
        v |-> munmap(v, h.driver_, max_size_),
        exc |-> NoExc]

\* process p can reach the arena through driver_
Usable(p) ==
  /\ hnd[p].driver_ # NULL
  /\ [base |-> hnd[p].driver_, lo |-> 0] \in vma[p]
  /\ hnd[p].driver_ = addr_

----------------------------------------------------------------------------
(* The calls.  A process is "idle" outside a call; "lock" before sem_wait;  *)
(* "search", "allocate", "free", "coalesce" inside the critical section;    *)
(* "unlock" when the lock guard is about to be destroyed (normally or by an *)
(* exception passing through); "return" when the call has delivered its     *)
(* result or exception to the caller.                                       *)

\* nothing given back yet
NoneFreed == [ptrs |-> {}, slots |-> <<>>]

\* The model drops the headers and footers that a merge leaves inside the
\* payload of the merged free chunk (Payload); the segment keeps those bytes
\* until the payload is handed out again.  StaleAfter collects them, given
\* the slots st collected so far and the memory m before and m2 after a step.
StaleAfter(st, m, m2) ==
  [x \in {a \in DOMAIN st \cup DOMAIN m : a >= first_chunk /\ a \notin DOMAIN m2} |->
     IF x \in DOMAIN m THEN m[x] ELSE st[x]]

\* freed is kept (t) by the specifications whose calls pass pointers that
\* were given back; the others leave it empty
Keep(t, f) == IF t THEN f ELSE NoneFreed

\* the bytes of the segment as a process reads them: m over the slots left
\* behind
Bytes(m, st) ==
  [x \in DOMAIN m \cup DOMAIN st |-> IF x \in DOMAIN m THEN m[x] ELSE st[x]]

\* size0, file0 and mem0 are history: driver::size_, the file size and the
\* segment as they were when the call took the lock
IdleLoc == [op |-> "none", arg |-> 0, size |-> 0, c |-> NULL, ret |-> NULL,
            exc |-> NoExc, size0 |-> 0, file0 |-> 0, mem0 |-> <<>>]

InCS == {"search", "allocate", "free", "coalesce", "unlock"}

Pending(p, op) == loc[p].op = op /\ pc[p] \in {"lock"} \cup InCS

\* q is inside deallocate(ptr) for a ptr that was given back before and has
\* not been handed out again since, or that another call is giving back
StaleFree(q) ==
  /\ Pending(q, "deallocate")
  /\ \/ loc[q].arg \in freed.ptrs
     \/ \E r \in Procs \ {q} : Pending(r, "deallocate") /\ loc[r].arg = loc[q].arg

\* mutant: no early return for a zero byte count
allocate_entry_nozero(n) == [pc |-> "lock", size |-> RoundUp(n)]

\* the lines of driver::allocate before `lock l`
allocate_entry(n) ==
  IF n = 0 THEN [pc |-> "return", size |-> 0]
  ELSE [pc |-> "lock", size |-> RoundUp(n)]

\* the lines of driver::deallocate before `lock l`
deallocate_entry(ptr) ==
  IF ptr = NULL THEN [pc |-> "return"] ELSE [pc |-> "lock"]

\* mutant: the wait returns whatever the value is
sem_wait_noblock(s) == TRUE

\* lock::lock(): sem_wait returns once the value is positive
sem_wait_ready(s) == s > 0

\* mutant: the guard goes away without posting
sem_post_keep(s) == s

\* lock::~lock(): sem_post
sem_post(s) == s + 1

AllocateCall(p, n) ==
  /\ pc[p] = "idle"
  /\ Usable(p)
  /\ n > 0 => Cardinality(DOMAIN live)
              + Cardinality({q \in Procs : Pending(q, "allocate")}) < MaxLive
  /\ \A q \in Procs : ~StaleFree(q)
  /\ LET e == allocate_entry(n) IN
     /\ pc' = [pc EXCEPT ![p] = e.pc]
     /\ loc' = [loc EXCEPT ![p] = [IdleLoc EXCEPT !.op = "allocate", !.arg = n,
                                                  !.size = e.size]]
  /\ UNCHANGED <<sem_, size_, file, mem, live, freed>>

DeallocateCall(p, ptr) ==
  /\ pc[p] = "idle"
  /\ Usable(p)
  /\ ptr # NULL => /\ ptr \in DOMAIN live
                   /\ \A q \in Procs : ~(Pending(q, "deallocate") /\ loc[q].arg = ptr)
  /\ pc' = [pc EXCEPT ![p] = deallocate_entry(ptr).pc]
  /\ loc' = [loc EXCEPT ![p] = [IdleLoc EXCEPT !.op = "deallocate", !.arg = ptr]]
  /\ UNCHANGED <<sem_, size_, file, mem, live, freed>>

Lock(p) ==
  /\ pc[p] = "lock"
  /\ sem_wait_ready(sem_)
  /\ sem_' = sem_ - 1
  /\ pc' = [pc EXCEPT ![p] = IF loc[p].op = "allocate" THEN "search" ELSE "free"]
  /\ loc' = [loc EXCEPT ![p].size0 = size_, ![p].file0 = file, ![p].mem0 = mem]
  /\ UNCHANGED <<size_, file, mem, live, freed>>

\* driver::allocate: the search loop and extend()
Search(p, t) ==
  /\ pc[p] = "search"
  /\ LET r == find_or_extend(mem, size_, file, loc[p].size) IN
     /\ mem' = r.mem
     /\ size_' = r.size_
     /\ file' = r.file
     /\ pc' = [pc EXCEPT ![p] = IF r.exc = NoExc THEN "allocate" ELSE "unlock"]
     /\ loc' = [loc EXCEPT ![p].c = r.c, ![p].exc = r.exc]
     /\ freed' = Keep(t, [freed EXCEPT !.slots = StaleAfter(@, mem, r.mem)])
  /\ UNCHANGED <<sem_, live>>

\* driver::allocate: c->allocate(size); return c->data();
Allocate(p) ==
  /\ pc[p] = "allocate"
  /\ LET r == chunk_allocate(mem, size_, loc[p].c, loc[p].size) IN
     /\ mem' = r.mem
     /\ pc' = [pc EXCEPT ![p] = "unlock"]
     /\ IF r.exc = NoExc
        THEN /\ loc' = [loc EXCEPT ![p].ret = data(loc[p].c)]
             /\ live' = [a \in DOMAIN live \cup {data(loc[p].c)} |->
                           IF a = data(loc[p].c) THEN loc[p].arg ELSE live[a]]
             /\ freed' = NoneFreed
        ELSE /\ loc' = [loc EXCEPT ![p].exc = r.exc]
             /\ UNCHANGED <<live, freed>>
  /\ UNCHANGED <<sem_, size_, file>>

\* driver::deallocate: get_chunk(p) and chunk::deallocate up to coalesce()
Free(p, t) ==
  /\ pc[p] = "free"
  /\ IF GetChunkThrows(loc[p].arg)
     THEN /\ pc' = [pc EXCEPT ![p] = "unlock"]
          /\ loc' = [loc EXCEPT ![p].exc = LogicError]
          /\ UNCHANGED <<mem, live, freed>>
     ELSE LET c == get_chunk(loc[p].arg)
              r == chunk_deallocate(Bytes(mem, freed.slots), c) IN
          /\ pc' = [pc EXCEPT ![p] = IF r.exc = NoExc THEN "coalesce" ELSE "unlock"]
          /\ loc' = [loc EXCEPT ![p].c = c, ![p].exc = r.exc]
          /\ IF r.exc = NoExc
             THEN /\ mem' = chunk_deallocate(mem, c).mem
                  /\ live' = [a \in DOMAIN live \ {loc[p].arg} |-> live[a]]
                  /\ freed' = Keep(t, [freed EXCEPT !.ptrs = @ \cup {loc[p].arg}])
             ELSE UNCHANGED <<mem, live, freed>>
  /\ UNCHANGED <<sem_, size_, file>>

\* chunk::deallocate: coalesce()
Coalesce(p, t) ==
  /\ pc[p] = "coalesce"
  /\ LET r == coalesce(mem, size_, loc[p].c) IN
     /\ mem' = r.mem
     /\ loc' = [loc EXCEPT ![p].exc = r.exc]
     /\ freed' = Keep(t, [freed EXCEPT !.slots = StaleAfter(@, mem, r.mem)])
  /\ pc' = [pc EXCEPT ![p] = "unlock"]
  /\ UNCHANGED <<sem_, size_, file, live>>

Unlock(p) ==
  /\ pc[p] = "unlock"
  /\ sem_' = sem_post(sem_)
  /\ pc' = [pc EXCEPT ![p] = "return"]
  /\ UNCHANGED <<size_, file, mem, loc, live, freed>>

Return(p) ==
  /\ pc[p] = "return"
  /\ pc' = [pc EXCEPT ![p] = "idle"]
  /\ loc' = [loc EXCEPT ![p] = IdleLoc]
  /\ UNCHANGED <<sem_, size_, file, mem, live, freed>>

Init ==
  LET d == driver(min_size_) IN
  /\ sem_ = d.sem_
  /\ size_ = d.size_
  /\ file = min_size_
  /\ mem = d.mem
  /\ pc = [p \in Procs |-> "idle"]
  /\ loc = [p \in Procs |-> IdleLoc]
  /\ live = <<>>
  /\ freed = NoneFreed
  /\ addr_ = MasterBase
  /\ hnd = [p \in Procs |->
             [name_ |-> SegName, shmfd_ |-> Fd, driver_ |-> MasterBase,
              oflag_ |-> IF p = 1 THEN O_RDWR + O_CREAT + O_TRUNC ELSE O_RDWR + O_CREAT,
              isOpen |-> TRUE]]
  /\ vma = [p \in Procs |-> {[base |-> MasterBase, lo |-> 0]}]

\* allocate and deallocate leave addr_ and the process-local statics alone
Step(PS, RS, t) ==
  /\ \/ \E p \in PS, n \in RS : AllocateCall(p, n)
     \/ \E p \in PS, ptr \in DOMAIN live \cup {NULL} : DeallocateCall(p, ptr)
     \/ \E p \in PS : Lock(p)
     \/ \E p \in PS : Search(p, t)
     \/ \E p \in PS : Allocate(p)
     \/ \E p \in PS : Free(p, t)
     \/ \E p \in PS : Coalesce(p, t)
     \/ \E p \in PS : Unlock(p)
     \/ \E p \in PS : Return(p)
  /\ UNCHANGED <<addr_, hnd, vma>>

\* The calls the contract forbids and the system calls that fail.

\* the pointers of a forbidden deallocate: given back already, being given
\* back by another call, or not aligned
BadPtrs ==
  freed.ptrs
    \cup {d \in DOMAIN live : \E q \in Procs : Pending(q, "deallocate") /\ loc[q].arg = d}
    \cup {d + (data_align_ \div 2) : d \in DOMAIN live}

\* deallocate(ptr) for such a pointer; no allocate is in progress, so the
\* bytes a given-back pointer refers to are still those of freed
DeallocateBad(p, ptr) ==
  /\ pc[p] = "idle"
  /\ Usable(p)
  /\ ptr \in BadPtrs
  /\ \A q \in Procs : ~Pending(q, "allocate")
  /\ pc' = [pc EXCEPT ![p] = deallocate_entry(ptr).pc]
  /\ loc' = [loc EXCEPT ![p] = [IdleLoc EXCEPT !.op = "deallocate", !.arg = ptr]]
  /\ UNCHANGED <<sem_, size_, file, mem, live, freed>>

\* lock::lock(): sem_wait returns -1 (EINTR) and the constructor throws
LockFail(p) ==
  /\ pc[p] = "lock"
  /\ pc' = [pc EXCEPT ![p] = "return"]
  /\ loc' = [loc EXCEPT ![p].exc = SystemError]
  /\ UNCHANGED <<sem_, size_, file, mem, live, freed>>

\* extend() when ftruncate returns -1
extend_failed(m, sz, f, sizeArg) ==
  LET s == Grow(sz, sz, sizeArg) IN
  [mem |-> m, size_ |-> sz, file |-> f, c |-> NULL,
   exc |-> IF SizeT(s - sz) < sizeArg THEN BadAlloc ELSE SystemError]

\* driver::allocate: the search finds no chunk and ftruncate fails in extend()
SearchFail(p) ==
  /\ pc[p] = "search"
  /\ loc[p].size # 0
  /\ FindFit(mem, list_index(loc[p].size), loc[p].size) = NULL
  /\ LET r == extend_failed(mem, size_, file, SizeT(loc[p].size + sizeof_chunk)) IN
     /\ r.exc = SystemError
     /\ pc' = [pc EXCEPT ![p] = "unlock"]
     /\ loc' = [loc EXCEPT ![p].exc = r.exc]
  /\ UNCHANGED <<sem_, size_, file, mem, live, freed>>

NextFault ==
  \/ Step(Procs, FaultSizes, TRUE)
  \/ /\ \/ \E p \in Procs, ptr \in BadPtrs : DeallocateBad(p, ptr)
        \/ \E p \in Procs : LockFail(p)
        \/ \E p \in Procs : SearchFail(p)
     /\ UNCHANGED <<addr_, hnd, vma>>

\* two processes call, also as the contract forbids, and system calls fail
SpecFault == Init /\ [][NextFault]_vars

\* process p moves on inside its call: one of Search, Allocate, Free,
\* Coalesce, Unlock, Return, each of which can be taken wherever pc[p] puts it
Runs(p) ==
  /\ pc[p] \in InCS \cup {"return"}
  /\ \E v \in (InCS \cup {"return", "idle"}) \ {pc[p]} : pc' = [pc EXCEPT ![p] = v]

\* The open and close calls.

\* the places where the kernel can put a mapping of max_size_ bytes
Bases == {1, 2}

OpenFlags == {O_RDWR, O_RDWR + O_CREAT, O_RDWR + O_CREAT + O_TRUNC}

\* what the system calls of one shm_open can answer: ::shm_open fails, or
\* ftruncate does, or the first mmap does, or the first mmap gives a place
\* and the second one is granted or not
Answers ==
  {[open |-> FALSE, trunc |-> TRUE, map |-> MAP_FAILED, remap |-> TRUE],
   [open |-> TRUE, trunc |-> FALSE, map |-> MAP_FAILED, remap |-> TRUE],
   [open |-> TRUE, trunc |-> TRUE, map |-> MAP_FAILED, remap |-> TRUE]}
    \cup [open : {TRUE}, trunc : {TRUE}, map : Bases, remap : BOOLEAN]

\* shm_open(name, oflag) by p.  The model follows one segment: another name
\* is passed only to a call made while the allocator is open; and one master:
\* the truncate flag is passed only while no other process has the segment
\* open.  The kernel puts the first mapping where p has none.
ShmOpen(p, name, oflag, e) ==
  /\ pc[p] = "idle"
  /\ name # NoName => hnd[p].driver_ # NULL
  /\ HasFlag(oflag, O_TRUNC) => \A q \in Procs \ {p} : hnd[q].driver_ = NULL
  /\ \A r \in vma[p] : r.base # e.map
  /\ \E r \in {shm_open(hnd[p], vma[p], Shared, name, oflag, e)} :
     /\ hnd' = [hnd EXCEPT ![p] =
                  [r.h EXCEPT !.isOpen = IF r.exc = LogicError THEN @ ELSE r.exc = NoExc]]
     /\ vma' = [vma EXCEPT ![p] = r.v]
     /\ file' = r.sh.file
     /\ sem_' = r.sh.sem_
     /\ addr_' = r.sh.addr_
     /\ size_' = r.sh.size_
     /\ mem' = r.sh.mem
     /\ live' = IF r.sh.mem = mem THEN live ELSE <<>>
     /\ loc' = [loc EXCEPT ![p] = [IdleLoc EXCEPT !.op = "shm_open", !.arg = oflag,
                                                  !.exc = r.exc]]
  /\ pc' = [pc EXCEPT ![p] = "return"]
  /\ UNCHANGED freed

\* shm_close() by p
ShmClose(p) ==
  /\ pc[p] = "idle"
  /\ \E r \in {shm_close(hnd[p], vma[p])} :
     /\ hnd' = [hnd EXCEPT ![p] =
                  [r.h EXCEPT !.isOpen = IF r.exc = LogicError THEN @ ELSE FALSE]]
     /\ vma' = [vma EXCEPT ![p] = r.v]
     /\ loc' = [loc EXCEPT ![p] = [IdleLoc EXCEPT !.op = "shm_close", !.exc = r.exc]]
  /\ pc' = [pc EXCEPT ![p] = "return"]
  /\ UNCHANGED <<sem_, size_, file, mem, live, freed, addr_>>

\* the program starts: no segment, oflag_ zero-initialised, shmfd_ = -1
InitOpen ==
  /\ sem_ = 0
  /\ size_ = 0
  /\ file = NoFile
  /\ mem = <<>>
  /\ addr_ = NULL
  /\ pc = [p \in Procs |-> "idle"]
  /\ loc = [p \in Procs |-> IdleLoc]
  /\ live = <<>>
  /\ freed = NoneFreed
  /\ hnd = [p \in Procs |->
             [name_ |-> SegName, shmfd_ |-> NoFd, driver_ |-> NULL, oflag_ |-> 0,
              isOpen |-> FALSE]]
  /\ vma = [p \in Procs |-> {}]

\* the byte counts of the specification with open and close
OpenSizes == {1000}

\* payloads held at a time while processes open and close
OpenLive == 1

\* process 1 is the one that may pass the truncate flag
FlagsOf(p) == IF p = 1 THEN OpenFlags ELSE {O_RDWR, O_RDWR + O_CREAT}

\* a process opens or closes at any time; allocate and deallocate are called
\* while no other process is inside one
NextOpen ==
  \/ \E p \in Procs, name \in {NoName, OtherName}, e \in Answers :
       \E oflag \in FlagsOf(p) : ShmOpen(p, name, oflag, e)
  \/ \E p \in Procs : ShmClose(p)
  \/ \E p \in Procs :
       /\ \A q \in Procs \ {p} : pc[q] \in {"idle", "return"}
       /\ Step({p}, OpenSizes, FALSE)
       /\ (pc[p] = "idle" /\ Cardinality(DOMAIN live) >= OpenLive) =>
            loc'[p].op # "allocate"

\* two processes open, close, allocate and deallocate
SpecOpen == InitOpen /\ [][NextOpen]_vars

\* The scheduler runs every process that can take a step, and a process that
\* waits in sem_wait gets the semaphore if it is posted again and again.
Fairness ==
  \A p \in Procs :
     WF_pc(Runs(p)) /\ SF_vars(Lock(p) /\ UNCHANGED <<addr_, hnd, vma>>)

\* two processes call in any interleaving under a fair scheduler
SpecLive == Init /\ [][Step(Procs, ConcSizes, FALSE)]_vars /\ Fairness

\* one process calls: every byte count of ReqSizes
Next == Step({1}, ReqSizes, FALSE)

Spec == Init /\ [][Next]_vars

\* two processes call in any interleaving
NextConc == Step(Procs, ConcSizes, FALSE)

SpecConc == Init /\ [][NextConc]_vars

----------------------------------------------------------------------------
(* Vocabulary of the properties. *)

\* no allocate/deallocate is inside its critical section
Quiescent == \A p \in Procs : pc[p] \notin InCS

\* no call is in progress: the next step is a call
AllIdle == \A p \in Procs : pc[p] = "idle"

RECURSIVE WalkEnd(_, _, _)
\* where the walk from c by header.size + overhead first reaches or passes sz
WalkEnd(m, c, sz) == IF c >= sz THEN c ELSE WalkEnd(m, c + full_size(m, c), sz)

RECURSIVE Walk(_, _, _)
\* the chunks that walk visits
Walk(m, c, sz) == IF c >= sz THEN {} ELSE {c} \cup Walk(m, c + full_size(m, c), sz)

Chunks == Walk(mem, first_chunk, size_)

IsFree(m, c) == Rd(m, c + sizeof_chunk_header + size(m, c)).size_ # 0

\* the free chunks by start address and payload size
FreeSet(m, sz) == {<<c, size(m, c)>> : c \in {x \in Walk(m, first_chunk, sz) : IsFree(m, x)}}

\* the bounds of a chunk's payload; its footer starts where the payload ends
PayloadLo(c) == c + sizeof_chunk_header
PayloadHi(c) == c + sizeof_chunk_header + size(mem, c)
FooterLo(c) == PayloadHi(c)

Disjoint(lo1, hi1, lo2, hi2) == hi1 <= lo2 \/ hi2 <= lo1

----------------------------------------------------------------------------
(* C1: every payload handed out and not yet freed has at least the bytes    *)
(* asked for, lies inside [end of arena header, committed size), and shares *)
(* no byte with another live payload nor with any chunk header or footer    *)
(* (the free-list dummy heads included).                                    *)

PayloadSafety ==
  Quiescent =>
    \A d \in DOMAIN live :
      LET c == d - sizeof_chunk_header IN
      /\ c \in Chunks
      /\ size(mem, c) >= live[d]
      /\ sizeof_driver <= PayloadLo(c)
      /\ PayloadHi(c) <= size_
      /\ \A e \in DOMAIN live \ {d} :
           Disjoint(d, PayloadHi(c), e, PayloadHi(e - sizeof_chunk_header))
      /\ \A k \in Chunks :
           /\ Disjoint(d, PayloadHi(c), k, k + sizeof_chunk_header)
           /\ Disjoint(d, PayloadHi(c), FooterLo(k), FooterLo(k) + sizeof_chunk_footer)

\* two payloads are out, one from a split and one behind an extension
PayloadSafetyWitness ==
  /\ Quiescent
  /\ Cardinality(DOMAIN live) = 2
  /\ size_ > min_size_
  /\ \E d \in DOMAIN live : size(mem, d - sizeof_chunk_header) > live[d] + data_align_

----------------------------------------------------------------------------
(* C2: in every quiescent state the walk from the first chunk by            *)
(* header.size + overhead visits well-formed chunks and ends exactly at the *)
(* committed size: the chunks cover [end of arena header, committed size).  *)

Tiling ==
  Quiescent =>
    /\ WalkEnd(mem, first_chunk, size_) = size_
    /\ \A c \in Chunks :
         /\ size(mem, c) >= min_data_size_
         /\ size(mem, c) % data_align_ = 0
    /\ file = size_

\* after two extensions, with allocated and free chunks in the walk
TilingWitness ==
  /\ Quiescent
  /\ size_ = 4 * min_size_
  /\ Cardinality(Chunks) >= 4
  /\ \E c \in Chunks : IsFree(mem, c)
  /\ \E c \in Chunks : ~IsFree(mem, c)

----------------------------------------------------------------------------
(* C3: in every quiescent state no two address-adjacent chunks are both     *)
(* free; the coalesce of a deallocate leaves one free chunk spanning the    *)
(* freed chunk and its free neighbours; an extension leaves one free chunk  *)
(* spanning the new region and the previous tail chunk if that was free.    *)

NoAdjacentFree ==
  Quiescent =>
    \A c \in Chunks :
      LET n == c + full_size(mem, c) IN
      n < size_ => ~(IsFree(mem, c) /\ IsFree(mem, n))

\* lo..hi is one free chunk of the walk over memory m up to sz
OneFreeChunk(m, sz, lo, hi) ==
  /\ lo \in Walk(m, first_chunk, sz)
  /\ IsFree(m, lo)
  /\ lo + full_size(m, lo) = hi

\* the chunk of the walk that ends where c starts, NULL if there is none
Pred(c) ==
  LET ks == {k \in Chunks : k + full_size(mem, k) = c}
  IN IF ks = {} THEN NULL ELSE CHOOSE k \in ks : TRUE

DeallocMerges ==
  \A p \in Procs :
    pc[p] = "coalesce" /\ pc'[p] = "unlock" =>
      LET c  == loc[p].c
          b  == Pred(c)
          n  == c + full_size(mem, c)
          lo == IF b # NULL /\ IsFree(mem, b) THEN b ELSE c
          hi == IF n < size_ /\ IsFree(mem, n) THEN n + full_size(mem, n) ELSE n
      IN OneFreeChunk(mem', size_', lo, hi)

ExtendMerges ==
  \A p \in Procs :
    pc[p] = "search" /\ size_' > size_ =>
      LET b  == Pred(size_)
          lo == IF b # NULL /\ IsFree(mem, b) THEN b ELSE size_
      IN OneFreeChunk(mem', size_', lo, size_')

Coalescing == []NoAdjacentFree /\ [][DeallocMerges /\ ExtendMerges]_vars

\* a deallocate has just merged its chunk into the free chunk before it, and
\* the merged chunk runs to the end of an extended segment
CoalescingWitness ==
  \E p \in Procs :
    /\ pc[p] = "unlock"
    /\ loc[p].op = "deallocate"
    /\ loc[p].c \notin Chunks
    /\ size_ > min_size_
    /\ \E k \in Chunks : /\ k < loc[p].c
                         /\ IsFree(mem, k)
                         /\ k + full_size(mem, k) = size_

----------------------------------------------------------------------------
(* C4: in every quiescent state each free chunk is on exactly one free      *)
(* list, once, and that list's index i has 2^i <= payload size < 2^(i+1);   *)
(* every list element is a free chunk of the walk; each element's           *)
(* header.prev is the element before it, the dummy head for the first.      *)

RECURSIVE ListFrom(_, _, _)
\* the chunks reached from c by footer()->next_, at most fuel of them
ListFrom(m, c, fuel) ==
  IF c = NULL \/ fuel = 0 THEN <<>>
  ELSE <<c>> \o ListFrom(m, Rd(m, c + sizeof_chunk_header + size(m, c)).link_, fuel - 1)

List(i) ==
  ListFrom(mem, Rd(mem, free_list_(i) + sizeof_chunk_header).link_,
           Cardinality(Chunks) + 1)

FreeListFidelity ==
  Quiescent =>
    /\ \A i \in 0 .. (n_free_list_ - 1) :
         LET s == List(i) IN
         \A k \in 1 .. Len(s) :
           /\ s[k] \in Chunks
           /\ IsFree(mem, s[k])
           /\ i < SizeBits
           /\ 2 ^ i <= size(mem, s[k])
           /\ size(mem, s[k]) < 2 ^ (i + 1)
           /\ Rd(mem, s[k]).link_ = (IF k = 1 THEN free_list_(i) ELSE s[k - 1])
           /\ \A j \in 1 .. Len(s) : j # k => s[j] # s[k]
    /\ \A c \in Chunks :
         IsFree(mem, c) =>
           Cardinality({i \in 0 .. (n_free_list_ - 1) :
                          \E k \in 1 .. Len(List(i)) : List(i)[k] = c}) = 1

\* a free list holds two chunks while a chunk is handed out
FreeListFidelityWitness ==
  /\ Quiescent
  /\ \E i \in 0 .. (n_free_list_ - 1) : Len(List(i)) >= 2
  /\ live # <<>>

----------------------------------------------------------------------------
(* C5: in every quiescent state each chunk's footer.size is 0 or its        *)
(* header.size; it is 0 exactly for the chunks handed out and not yet       *)
(* freed; and those chunks have header.prev and footer.next nil.            *)

StatusEncoding ==
  Quiescent =>
    \A c \in Chunks :
      LET fs == Rd(mem, FooterLo(c)).size_ IN
      /\ fs \in {0, size(mem, c)}
      /\ fs = 0 <=> (c + sizeof_chunk_header) \in DOMAIN live
      /\ fs = 0 => /\ Rd(mem, c).link_ = NULL
                   /\ Rd(mem, FooterLo(c)).link_ = NULL

\* a chunk taken whole and a chunk cut by a split are out, next to free ones
StatusEncodingWitness ==
  /\ Quiescent
  /\ \E d \in DOMAIN live : size(mem, d - sizeof_chunk_header) > live[d] + data_align_
  /\ \E d \in DOMAIN live : size(mem, d - sizeof_chunk_header) < live[d] + data_align_
  /\ \E c \in Chunks : IsFree(mem, c)

----------------------------------------------------------------------------
(* C6: from a state with no call in progress, p = allocate(n) that succeeds followed at    *)
(* once by deallocate(p) leaves the same free chunks (start, size) as       *)
(* before.  As stated, for every n > 0 whose allocate succeeds:             *)

\* the free chunks once the block of the allocate result a is given back
FreeAfter(a) == FreeSet(deallocate_op(a.mem, a.size_, a.ret).mem, a.size_)

FreeAfterRoundTrip(n) == FreeAfter(allocate_op(mem, size_, file, n))

RoundTripAlways ==
  AllIdle =>
    \A n \in ReqSizes \ {0} :
      allocate_op(mem, size_, file, n).exc = NoExc =>
        FreeAfterRoundTrip(n) = FreeSet(mem, size_)

(* C6 as amended: the free chunks are the same when the allocate was served *)
(* without extending the segment; when it extended the segment, the free    *)
(* chunks are those of before with the new region [old size, new size)      *)
(* added, merged with the previous tail chunk if that was free.             *)

RoundTrip ==
  AllIdle =>
    \A n \in ReqSizes \ {0} :
      LET a == allocate_op(mem, size_, file, n) IN
      a.exc = NoExc =>
        IF a.size_ = size_
        THEN FreeAfter(a) = FreeSet(mem, size_)
        ELSE LET b  == Pred(size_)
                 lo == IF b # NULL /\ IsFree(mem, b) THEN b ELSE size_
             IN FreeAfter(a)
                  = {x \in FreeSet(mem, size_) : x[1] # lo}
                    \cup {<<lo, a.size_ - lo - sizeof_chunk>>}

\* a state with a chunk handed out where some allocate splits a free chunk
\* without extending, and the deallocate restores the free chunks
RoundTripWitness ==
  /\ AllIdle
  /\ live # <<>>
  /\ \E n \in ReqSizes \ {0} :
       LET a == allocate_op(mem, size_, file, n) IN
       /\ a.exc = NoExc
       /\ a.size_ = size_
       /\ Cardinality(FreeSet(a.mem, a.size_)) = Cardinality(FreeSet(mem, size_))
       /\ FreeSet(a.mem, a.size_) # FreeSet(mem, size_)
       /\ FreeAfterRoundTrip(n) = FreeSet(mem, size_)

----------------------------------------------------------------------------
(* C7: allocate(0) and deallocate(nil) return nil / return normally at      *)
(* once: they never wait for the mutex and leave the semaphore, the         *)
(* committed size, the file, the chunks and the free lists unchanged.       *)

NilCall(p) ==
  /\ pc[p] = "idle"
  /\ pc'[p] # "idle"
  /\ \/ loc'[p].op = "allocate" /\ loc'[p].arg = 0
     \/ loc'[p].op = "deallocate" /\ loc'[p].arg = NULL

NilNoLock ==
  [][\A p \in Procs :
       NilCall(p) => /\ pc'[p] = "return"
                     /\ loc'[p].ret = NULL
                     /\ loc'[p].exc = NoExc
                     /\ UNCHANGED <<sem_, size_, file, mem, live>>]_vars

\* allocate(0) has returned while the other process holds the mutex
NilNoLockWitness ==
  \E p, q \in Procs :
    /\ pc[p] = "return" /\ loc[p].op = "allocate" /\ loc[p].arg = 0
    /\ loc[p].ret = NULL
    /\ pc[q] \in {"search", "allocate", "free", "coalesce"}
    /\ sem_ = 0

----------------------------------------------------------------------------
(* C8: an allocate that reports out-of-memory leaves the chunks, the free   *)
(* lists, the committed size and the file size as they were, and the mutex  *)
(* is released when the call has returned.                                  *)

OomIntact ==
  /\ [][\A p \in Procs :
          pc[p] = "search" /\ loc'[p].exc = BadAlloc =>
            UNCHANGED <<mem, size_, file, live>>]_vars
  /\ [](\A p \in Procs :
          pc[p] = "return" /\ loc[p].exc = BadAlloc =>
            sem_ = 1 /\ size_ = loc[p].size0 /\ file = loc[p].size0)

\* out-of-memory has been reported on an arena that has a chunk handed out
\* and could still grow
OomIntactWitness ==
  \E p \in Procs :
    /\ pc[p] = "return"
    /\ loc[p].exc = BadAlloc
    /\ sem_ = 1
    /\ live # <<>>
    /\ size_ < max_size_

----------------------------------------------------------------------------
(* C9: for every byte count n > 0, allocate(n) returns a payload of at      *)
(* least n bytes or reports out-of-memory without having grown the          *)
(* segment; it never ends with a logic error.                               *)

AllocateContract ==
  \A p \in Procs :
    pc[p] = "return" /\ loc[p].op = "allocate" /\ loc[p].arg > 0 =>
      \/ /\ loc[p].exc = NoExc
         /\ loc[p].ret # NULL
         /\ size(mem, loc[p].ret - sizeof_chunk_header) >= loc[p].arg
      \/ /\ loc[p].exc = BadAlloc
         /\ size_ = loc[p].size0

----------------------------------------------------------------------------
(* C10: at most one process is inside the critical section, the semaphore   *)
(* is 0 while one is, and every step that changes chunks, free lists, the   *)
(* committed size or the file is taken by the process inside it.            *)

OneInCS ==
  /\ \A p, q \in Procs : p # q => ~(pc[p] \in InCS /\ pc[q] \in InCS)
  /\ (\E p \in Procs : pc[p] \in InCS) => sem_ = 0

WritesByHolder ==
  (mem' # mem \/ size_' # size_ \/ file' # file \/ live' # live) =>
    \E p \in Procs :
      /\ pc[p] \in {"search", "allocate", "free", "coalesce"}
      /\ pc'[p] # pc[p]
      /\ \A q \in Procs \ {p} : pc[q] \notin InCS /\ pc'[q] = pc[q]

MutualExclusion == []OneInCS /\ [][WritesByHolder]_vars

\* one process is merging chunks while the other waits for the mutex
MutualExclusionWitness ==
  \E p, q \in Procs :
    /\ pc[p] = "coalesce"
    /\ pc[q] = "lock" /\ loc[q].op = "allocate"
    /\ sem_ = 0

----------------------------------------------------------------------------
(* C11: every allocate or deallocate that took the mutex posts it exactly   *)
(* once before the call is left, whether it returns normally or leaves with *)
(* bad_alloc, a system error or a logic error (unaligned pointer, double    *)
(* free, bad size); the semaphore is always 0 or 1, and it is 1 whenever no *)
(* call is between its wait and its post.                                   *)

SemRange == sem_ \in {0, 1} /\ (Quiescent => sem_ = 1)

\* a call leaves its critical section only by the post of its guard, and the
\* semaphore does not move while the call stays inside
PostOnce ==
  \A p \in Procs :
    pc[p] \in InCS =>
      IF pc'[p] \in InCS
      THEN sem_' = sem_
      ELSE pc[p] = "unlock" /\ pc'[p] = "return" /\ sem_' = sem_ + 1

\* a call that is left after it took the mutex went through the post
LeftByPost ==
  \A p \in Procs :
    pc'[p] = "return" /\ pc[p] # "return" =>
      \/ pc[p] = "unlock"
      \/ pc[p] = "idle"
      \/ pc[p] = "lock" /\ sem_' = sem_

ScopedRelease == []SemRange /\ [][PostOnce /\ LeftByPost]_vars

\* a double free has left with a logic error, the mutex posted, while the
\* other process waits for it after a failed extension left with a system
\* error
ScopedReleaseWitness ==
  \E p \in Procs, q \in Procs :
    /\ pc[p] = "return"
    /\ loc[p].op = "deallocate"
    /\ loc[p].arg \in freed.ptrs
    /\ loc[p].exc = LogicError
    /\ loc[p].size0 # 0
    /\ sem_ = 1
    /\ pc[q] = "return"
    /\ loc[q].op = "allocate"
    /\ loc[q].exc = SystemError
    /\ loc[q].size0 # 0

----------------------------------------------------------------------------
(* C12: in any interleaving of the calls of several processes, the segment  *)
(* left by each call and the value it returns are those of running the call *)
(* alone on the segment as it was when the call took the mutex, and the     *)
(* segment does not change between a post and the next wait, so the run     *)
(* equals the calls one at a time in the order they took the mutex; under a *)
(* fair scheduler every call that waits for the mutex takes it and returns. *)

\* the call of p run alone on the segment p found when it took the mutex
Alone(p) ==
  IF loc[p].op = "allocate"
  THEN allocate_op(loc[p].mem0, loc[p].size0, loc[p].file0, loc[p].arg)
  ELSE LET d == deallocate_op(loc[p].mem0, loc[p].size0, loc[p].arg)
       IN [mem |-> d.mem, size_ |-> loc[p].size0, file |-> loc[p].file0,
           ret |-> NULL, exc |-> d.exc]

AsIfAlone ==
  \A p \in Procs :
    pc[p] = "unlock" /\ pc'[p] = "return" =>
      /\ mem = Alone(p).mem
      /\ size_ = Alone(p).size_
      /\ file = Alone(p).file
      /\ loc[p].ret = Alone(p).ret
      /\ loc[p].exc = Alone(p).exc

StillBetweenCalls == sem_ = 1 => UNCHANGED <<mem, size_, file>>

-----------------------------------------------------------------------------
(* Opening and closing.                                                     *)

\* p's shm_open has just returned without an exception
Opened(p) == pc[p] = "return" /\ loc[p].op = "shm_open" /\ loc[p].exc = NoExc

\* p's shm_open without O_TRUNC has just returned without an exception
Attached(p) == Opened(p) /\ ~HasFlag(loc[p].arg, O_TRUNC)

\* C13: after an open without the truncate flag has succeeded, the driver
\* pointer the process makes its calls through is the address the master
\* recorded in the driver, and the segment is mapped there.
SingleAddressAttach ==
  \A p \in Procs : Attached(p) =>
     /\ hnd[p].driver_ = addr_
     /\ [base |-> addr_, lo |-> 0] \in vma[p]

\* the step is p's whole shm_open, with the flags oflag
OpenStep(p, oflag) ==
  /\ pc[p] = "idle" /\ pc'[p] = "return"
  /\ loc'[p].op = "shm_open" /\ loc'[p].arg = oflag

\* the step is the whole shm_close of p, which had opened without O_TRUNC or
\* had nothing open
AttacherCloseStep(p) ==
  /\ pc[p] = "idle" /\ pc'[p] = "return"
  /\ loc'[p].op = "shm_close"
  /\ ~HasFlag(hnd[p].oflag_, O_TRUNC)

\* a master has constructed the driver in the segment
Initialised == addr_ # NULL /\ file >= min_size_

\* the recorded address, the committed size, the semaphore, the list heads
\* and the chunks, and the file behind them
Arena == <<addr_, size_, sem_, mem, file>>

\* an open without O_TRUNC of an initialised segment, and a close by an
\* attacher, write nothing
AttachPreserves ==
  \A p \in Procs :
     \/ \E oflag \in OpenFlags :
          OpenStep(p, oflag) /\ ~HasFlag(oflag, O_TRUNC) /\ Initialised
     \/ AttacherCloseStep(p)
     => UNCHANGED Arena

\* the arena is constructed by an open with O_TRUNC and by nothing else; an
\* open with O_TRUNC that succeeds leaves a new driver at its mapping
OnlyMasterInitialises ==
  /\ addr_' # addr_ =>
       \E p \in Procs, oflag \in OpenFlags :
          OpenStep(p, oflag) /\ HasFlag(oflag, O_TRUNC)
  /\ \A p \in Procs :
       /\ pc[p] = "idle" /\ pc'[p] = "return"
       /\ loc'[p].op \in {"shm_open", "shm_close"}
       /\ <<addr_, size_, sem_, mem>>' # <<addr_, size_, sem_, mem>>
       => HasFlag(loc'[p].arg, O_TRUNC)
  /\ \A p \in Procs, oflag \in OpenFlags :
       OpenStep(p, oflag) /\ HasFlag(oflag, O_TRUNC) /\ loc'[p].exc = NoExc =>
          /\ addr_' = hnd'[p].driver_
          /\ sem_' = 1
          /\ size_' = file'
          /\ mem' = driver(file').mem

\* C14: an attacher's open of a segment a master has initialised, and an
\* attacher's close, leave the recorded address, the committed size, the
\* semaphore, the list heads and every chunk as they were; only an open
\* with the truncate flag initialises the arena.
AttachDetachFrame == [][AttachPreserves /\ OnlyMasterInitialises]_vars

\* an attacher has opened a segment in which the master holds a payload
AttachDetachFrameWitness ==
  /\ Attached(2)
  /\ live # <<>>
  /\ hnd[2].driver_ = addr_

\* shm_oflag()
shm_oflag(p) == hnd[p].oflag_

\* p's last shm_open has thrown and p has not opened since
OpenFailed(p) ==
  pc[p] = "return" /\ loc[p].op = "shm_open" /\ loc[p].exc = SystemError

\* C15: shm_oflag() is 0 whenever the segment is not open (before the first
\* open, after shm_close, after a shm_open that failed) and is the flags
\* passed to shm_open while it is open.
OflagContract ==
  \A p \in Procs :
     /\ (hnd[p].driver_ = NULL \/ OpenFailed(p)) => shm_oflag(p) = 0
     /\ Opened(p) => shm_oflag(p) = loc[p].arg

\* the step is p's whole shm_close
CloseStep(p) ==
  /\ pc[p] = "idle" /\ pc'[p] = "return"
  /\ loc'[p].op = "shm_close"

\* p's statics as shm_close leaves them
ClosedByClose(p) ==
  hnd[p].driver_ = NULL /\ hnd[p].shmfd_ = NoFd /\ hnd[p].oflag_ = 0

\* shm_open while open: logic_error, and name_, oflag_, shmfd_, driver_ and
\* the mappings of the process stay
DuplicateOpenRefused ==
  \A p \in Procs, oflag \in OpenFlags :
     OpenStep(p, oflag) /\ hnd[p].isOpen =>
        /\ loc'[p].exc = LogicError
        /\ hnd'[p] = hnd[p]
        /\ vma'[p] = vma[p]

\* shm_close while not open: logic_error
CloseUnopenedRefused ==
  \A p \in Procs : CloseStep(p) /\ ~hnd[p].isOpen => loc'[p].exc = LogicError

\* shm_open after shm_close is not refused as a duplicate
ReopenAccepted ==
  \A p \in Procs, oflag \in OpenFlags :
     OpenStep(p, oflag) /\ ClosedByClose(p) => loc'[p].exc # LogicError

\* C16: shm_open while open raises a logic error and leaves the name, the
\* flags, the descriptor and the mapping of the process unchanged; shm_close
\* while not open raises a logic error; after a shm_close that succeeded a
\* new shm_open is accepted.
OpenCloseProtocol ==
  [][DuplicateOpenRefused /\ CloseUnopenedRefused /\ ReopenAccepted]_vars

-----------------------------------------------------------------------------
(* Double free.                                                             *)

\* p is inside deallocate(d) for a payload d that allocate returned and that
\* was given back since, with no allocate in between
SecondFree(p) == loc[p].op = "deallocate" /\ loc[p].arg \in freed.ptrs

\* the free chunk that now holds the bytes of the chunk c
Holder(c) == CHOOSE k \in Chunks : k <= c /\ c < k + full_size(mem, k)

\* the chunk of the given-back payload d went into the free chunk before it:
\* its header is no chunk's header any more
MergedBefore(d) == Holder(get_chunk(d)) < get_chunk(d)

\* the chunk of d took in the free chunk after it: its old footer lies
\* inside the payload of the free chunk that holds it
MergedAfter(d) ==
  \E x \in DOMAIN freed.slots :
     x > get_chunk(d) /\ x < footer(mem, Holder(get_chunk(d)))

\* the test of the footer in a second free: logic_error, nothing written
SecondFreeThrows ==
  \A p \in Procs :
     pc[p] = "free" /\ pc'[p] # "free" /\ SecondFree(p) =>
        /\ loc'[p].exc = LogicError
        /\ pc'[p] = "unlock"
        /\ UNCHANGED <<mem, size_, file, live>>

\* the failing call ends with the segment as it found it, and posts
SecondFreeLeaves ==
  \A p \in Procs :
     pc[p] = "unlock" /\ pc'[p] = "return" /\ SecondFree(p) /\ loc[p].exc = LogicError =>
        /\ mem = loc[p].mem0 /\ size_ = loc[p].size0 /\ file = loc[p].file0
        /\ UNCHANGED <<mem, size_, file>>
        /\ sem_ = 0 /\ sem_' = 1

\* C17: a second deallocate(d) of a payload d that allocate returned, with no
\* allocate in between, raises a logic error whatever the first one merged;
\* the failing call leaves the chunks, the free lists and the committed size
\* unchanged and releases the mutex.
DoubleFreeDetected == [][SecondFreeThrows /\ SecondFreeLeaves]_vars

\* a second free has failed of a chunk that the first free merged with the
\* chunk before it and the chunk after it
DoubleFreeDetectedWitness ==
  \E p \in Procs :
     /\ pc[p] = "return" /\ SecondFree(p) /\ loc[p].exc = LogicError
     /\ sem_ = 1
     /\ MergedBefore(loc[p].arg) /\ MergedAfter(loc[p].arg)

-----------------------------------------------------------------------------
(* The search.                                                              *)

\* n rounded up to a multiple of data_align_, as a number
Rounded(n) == ((n + data_align_ - 1) \div data_align_) * data_align_

\* the places in list i of the chunks whose payload has at least r bytes
FitsIn(i, r) == {k \in 1 .. Len(List(i)) : size(mem, List(i)[k]) >= r}

\* the classes from floor(log2(r)) up that hold such a chunk
FitClasses(r) == {i \in Log2(r) .. (n_free_list_ - 1) : FitsIn(i, r) # {}}

Least(S) == CHOOSE x \in S : \A y \in S : x <= y

\* the first chunk in list order that fits, in the lowest class that has one
FirstFit(r) == List(Least(FitClasses(r)))[Least(FitsIn(Least(FitClasses(r)), r))]

\* some free list holds a chunk whose payload has at least r bytes
AnyFit(r) == \E i \in 0 .. (n_free_list_ - 1) : FitsIn(i, r) # {}

\* p's allocate(n), n > 0, makes its search
SearchStep(p) ==
  pc[p] = "search" /\ pc'[p] # "search" /\ loc[p].op = "allocate" /\ loc[p].arg > 0

\* the search takes the first fit and leaves the segment as it is, or, with
\* no fit in any list, extends (or reports that it cannot); the chunk it
\* takes is never too small
FirstFitStep ==
  \A p \in Procs : SearchStep(p) =>
     LET r == Rounded(loc[p].arg) IN
     /\ AnyFit(r) =>
          /\ loc'[p].exc = NoExc
          /\ loc'[p].c = FirstFit(r)
          /\ UNCHANGED <<mem, size_, file>>
     /\ ~AnyFit(r) => size_' > size_ \/ loc'[p].exc = BadAlloc
     /\ size_' # size_ => ~AnyFit(r)
     /\ loc'[p].exc = NoExc => size(mem', loc'[p].c) >= r

\* C18: allocate(n), n > 0 rounded up to r, takes the first chunk in list
\* order with payload size >= r in the lowest class from floor(log2(r)) up
\* that has one, never a chunk with payload size < r, and extends the
\* segment if and only if no free list holds a chunk with payload size >= r.
FirstFitByClass == [][FirstFitStep]_vars

-----------------------------------------------------------------------------
(* Growth.                                                                  *)

\* min_size_ times a power of two, up to max_size_
GeometricSizes == {min_size_ * 2 ^ k : k \in 0 .. SizeBits} \cap (0 .. max_size_)

\* the sizes that doubling cur at least once can give for delta more bytes
Doublings(cur, delta) ==
  {v \in {cur * 2 ^ k : k \in 1 .. SizeBits} : v <= max_size_ /\ v - cur >= delta}

\* the committed size is geometric and is the size of the file
GeometricSize == size_ \in GeometricSizes /\ file = size_

\* a search that finds no fit for r needs r + sizeof(chunk) more bytes: it
\* sets the committed size to the least doubling that has them, or reports
\* out-of-memory if there is none; nothing else changes the committed size
GrowthStep ==
  /\ size_' >= size_
  /\ size_' # size_ =>
       \E p \in Procs : SearchStep(p) /\ ~AnyFit(Rounded(loc[p].arg))
  /\ \A p \in Procs :
       SearchStep(p) /\ ~AnyFit(Rounded(loc[p].arg)) =>
          LET d == Doublings(size_, Rounded(loc[p].arg) + sizeof_chunk) IN
          IF d = {}
          THEN loc'[p].exc = BadAlloc /\ size_' = size_ /\ file' = file
          ELSE size_' = Least(d) /\ file' = Least(d)

\* C19: the committed size is always min_size_ times a power of two, at
\* most max_size_, and never decreases; an extension sets it to the least
\* current * 2^k (k >= 1) that has the needed bytes more, or reports
\* out-of-memory if none is within max_size_; the file is truncated to
\* exactly the committed size.
GeometricGrowth == []GeometricSize /\ [][GrowthStep]_vars

-----------------------------------------------------------------------------
(* The split.                                                               *)

\* p's allocate(n) takes the chunk its search chose
TakeStep(p) ==
  /\ pc[p] = "allocate" /\ pc'[p] = "unlock"
  /\ loc[p].op = "allocate" /\ loc'[p].exc = NoExc

\* free list i after the step
ListAfter(i) ==
  ListFrom(mem', Rd(mem', free_list_(i) + sizeof_chunk_header).link_,
           Cardinality(Chunks) + 2)

InSeq(x, sq) == \E k \in 1 .. Len(sq) : sq[k] = x

\* with s - r >= min_chunk_size_ the chunk keeps r bytes of payload and a
\* free chunk of s - r bytes in all follows it, in the list of its size;
\* otherwise the chunk is taken whole and no chunk appears
SplitStep ==
  \A p \in Procs : TakeStep(p) =>
     LET c == loc[p].c
         r == Rounded(loc[p].arg)
         s == size(mem, c)
         k == c + sizeof_chunk + r
     IN /\ IsFree(mem, c) /\ ~IsFree(mem', c)
        /\ loc'[p].ret = data(c)
        /\ IF s - r >= min_chunk_size_
           THEN /\ size(mem', c) = r
                /\ Walk(mem', first_chunk, size_') = Chunks \cup {k}
                /\ k \notin Chunks
                /\ full_size(mem', k) = s - r
                /\ IsFree(mem', k)
                /\ InSeq(k, ListAfter(Log2(size(mem', k))))
           ELSE /\ size(mem', c) = s
                /\ Walk(mem', first_chunk, size_') = Chunks

\* the payload of a chunk handed out for n bytes has the rounded n and
\* less than min_chunk_size_ more
TightPayloads ==
  \A d \in DOMAIN live :
     /\ Rounded(live[d]) <= size(mem, get_chunk(d))
     /\ size(mem, get_chunk(d)) < Rounded(live[d]) + min_chunk_size_

\* C20: allocate(n), n rounded up to r, taking a free chunk of payload size
\* s: if s - r >= min_chunk_size_ the chunk ends with payload size r and a
\* new free chunk of s - r bytes in all lies right after it, in the free
\* list of its size; otherwise the whole chunk is allocated with payload
\* size s; so an allocated payload size p has r <= p < r + min_chunk_size_.
SplitRule == []TightPayloads /\ [][SplitStep]_vars

\* one payload came from a split and another is a chunk taken whole that is
\* larger than the rounded request
SplitRuleWitness ==
  \E d, e \in DOMAIN live :
     /\ size(mem, get_chunk(d)) = Rounded(live[d])
     /\ get_chunk(d) + full_size(mem, get_chunk(d)) \in Chunks
     /\ IsFree(mem, get_chunk(d) + full_size(mem, get_chunk(d)))
     /\ size(mem, get_chunk(e)) > Rounded(live[e])

-----------------------------------------------------------------------------
(* Termination of coalesce().                                               *)

\* chunk::deallocate's coalesce(), as p's step from "coalesce" runs it
CoalesceOfFree(p) == coalesce(mem, size_, loc[p].c)

\* extend()'s add_chunk() and its coalesce(), in a search step that grows
\* the segment
CoalesceOfExtend == add_chunk(mem, size_', size_, SizeT(size_' - size_))

\* what chunk::allocate leaves behind the payload it keeps
Remainder(p) == size(mem, loc[p].c) - loc[p].size

\* split()'s add_chunk() and its coalesce(), in a step that takes a chunk
\* with a remainder
CoalesceOfSplit(p) ==
  split(remove(mem, loc[p].c), size_, loc[p].c, Remainder(p))

\* the places of chunk c in the free lists after the step
PlacesAfter(c) ==
  {ik \in (0 .. (n_free_list_ - 1)) \X (1 .. (Cardinality(Chunks) + 2)) :
     /\ ik[2] <= Len(ListAfter(ik[1]))
     /\ ListAfter(ik[1])[ik[2]] = c}

\* the call r is the one the step made; coalesce() entered add_chunk at most
\* once and returned a free chunk that is in one free list, once
BoundedMerge(r) ==
  /\ r.mem = mem'
  /\ r.exc = NoExc
  /\ r.calls <= 1
  /\ r.c \in Walk(mem', first_chunk, size_')
  /\ IsFree(mem', r.c)
  /\ Cardinality(PlacesAfter(r.c)) = 1
  /\ PlacesAfter(r.c) \subseteq {Log2(size(mem', r.c))} \X (1 .. (Cardinality(Chunks) + 2))

CoalesceStep ==
  \A p \in Procs :
    /\ pc[p] = "coalesce" /\ pc'[p] = "unlock" => BoundedMerge(CoalesceOfFree(p))
    /\ pc[p] = "search" /\ size_' # size_ => BoundedMerge(CoalesceOfExtend)
    /\ TakeStep(p) /\ Remainder(p) >= min_chunk_size_ =>
         BoundedMerge(CoalesceOfSplit(p))

\* C21: from a state that satisfies the chunk invariants, a call of
\* coalesce() made by deallocate, split or extend enters add_chunk, and with
\* it coalesce, at most once more: the merged chunk has no free chunk before
\* or after it; so the call returns with the merged chunk in exactly one
\* free list.
CoalesceTerminates == [][CoalesceStep]_vars

\* a deallocate has merged its chunk with the free chunk before it and the
\* free chunk after it
CoalesceTerminatesWitness ==
  \E p \in Procs :
    /\ pc[p] = "unlock"
    /\ loc[p].op = "deallocate"
    /\ loc[p].exc = NoExc
    /\ \E k \in Chunks :
         /\ k < loc[p].c
         /\ IsFree(mem, k)
         /\ k + full_size(mem, k) > loc[p].c + full_size(loc[p].mem0, loc[p].c)
====
